---- MODULE Spec2Model ----
(***************************************************************************)
(* Audio-Transcription-App: the useGeminiLive hook (src/hooks/             *)
(* useGeminiLive.ts) together with the App component that drives it        *)
(* (src/App.tsx), as a state machine of browser event-loop tasks.          *)
(*                                                                         *)
(* One action is one task of the event loop: a click handler, an SDK       *)
(* callback, the continuation of an await.  Code between two awaits runs   *)
(* to completion, React state updates of one task are batched, and the     *)
(* continuation of an await on an already settled promise runs in the      *)
(* microtask checkpoint of the same task.                                  *)
(*                                                                         *)
(* The live connection (the @google/genai SDK over a browser WebSocket)    *)
(* is the environment.  What the model lets it do:                         *)
(*   - the promise returned by connect is pending while the socket is      *)
(*     connecting; it resolves in the task that calls onopen, or rejects   *)
(*     before the socket opens;                                            *)
(*   - onmessage is called only on an open socket;                         *)
(*   - onerror is called at most once, on a connecting or open socket,     *)
(*     which is dead afterwards; the server may also close an open socket; *)
(*   - session.close() may throw; the socket is dead afterwards either way;*)
(*   - a script processor raises onaudioprocess only while it is connected *)
(*     and its audio context is running.                                   *)
(***************************************************************************)
EXTENDS Integers, Sequences, FiniteSets, TLC

\* ---------------------------------------------------------------- bounds
MaxSessions == 2     \* start() invocations in one run
MaxMessages == 2     \* server messages in one run
MaxUploads  == 1     \* file uploads in one run
MaxNow      == 1     \* last value of the millisecond clock

Sessions == 1..MaxSessions
NULL     == 0        \* a ref's null
NullError == "null"  \* the error state's null

\* ---------------------------------------------------------------- strings
\* A string is a sequence of characters.  A character carries, beside its
\* glyph, the session it was received on (0: a file upload's response), so
\* that the provenance of transcribed text can be stated.
Char(g, s) == [ch |-> g, sid |-> s]

Glyphs == {"a", " "}

IsSpace(c) == c.ch = " "

\* String.prototype.trim: strip white space from both ends.
RECURSIVE TrimStart(_)
TrimStart(t) ==
  IF t # <<>> /\ IsSpace(Head(t)) THEN TrimStart(Tail(t)) ELSE t

RECURSIVE TrimEnd(_)
TrimEnd(t) ==
  IF t # <<>> /\ IsSpace(t[Len(t)]) THEN TrimEnd(SubSeq(t, 1, Len(t) - 1)) ELSE t

Trim(t) == TrimEnd(TrimStart(t))

\* JavaScript truthiness of a string: the empty string is falsy.
Truthy(t) == t # <<>>

\* The fragment texts a server message of session s may carry.
FragmentTexts(s) == { <<Char(g, s)>> : g \in Glyphs }

\* LiveServerMessage, the two fields of serverContent the hook reads:
\* inputTranscription (present or not, with its text) and turnComplete.
Messages(s) ==
  [hasInput : {TRUE}, text : FragmentTexts(s), turnComplete : BOOLEAN]
    \cup [hasInput : {FALSE}, text : {<<>>}, turnComplete : BOOLEAN]

\* ---------------------------------------------------------------- state
VARIABLES
  hasApiKey,                      \* process.env.API_KEY is set
  isRecording, isInitializing,    \* hook state
  sessionPromiseRef, mediaStreamRef, audioContextRef, scriptProcessorRef,
  currentInputTranscriptionRef,
  transcripts, currentTranscription, error, mode, isProcessingFile,  \* App state
  now,                            \* Date.now()
  starts,                         \* start() invocations so far
  call,                           \* where each start() invocation stands
  conn, promise,                  \* each session's socket and connect promise
  stream, context, processor,     \* each microphone stream, audio context, script processor
  upload, uploads,                \* the file upload in flight, uploads so far
  messages,                       \* server messages handled so far
  received, delivered, sent,      \* history: fragments received, texts passed to
                                  \* onTranscriptionComplete, sendRealtimeInput calls
  inputData, pcmBlob, pcmPc       \* createPcmBlob: its argument, its result, and
                                  \* whether a call is due

hookVars == <<isRecording, isInitializing, sessionPromiseRef, mediaStreamRef,
              audioContextRef, scriptProcessorRef, currentInputTranscriptionRef>>
appVars  == <<transcripts, currentTranscription, error, mode, isProcessingFile>>
envVars  == <<hasApiKey, now, starts, call, conn, promise, stream, context, processor,
              upload, uploads, messages>>
histVars == <<received, delivered, sent>>
pcmVars  == <<inputData, pcmBlob, pcmPc>>
vars     == <<hookVars, appVars, envVars, histVars, pcmVars>>

NoProcessor == [st |-> "none", ctx |-> NULL, src |-> NULL]

\* No blob made yet.
NoBlob == [int16 |-> <<>>, bytes |-> <<>>]

Init ==
  /\ hasApiKey \in BOOLEAN
  /\ isRecording = FALSE
  /\ isInitializing = FALSE
  /\ sessionPromiseRef = NULL
  /\ mediaStreamRef = NULL
  /\ audioContextRef = NULL
  /\ scriptProcessorRef = NULL
  /\ currentInputTranscriptionRef = <<>>
  /\ transcripts = <<>>
  /\ currentTranscription = <<>>
  /\ error = NullError
  /\ mode = "live"
  /\ isProcessingFile = FALSE
  /\ now = 0
  /\ starts = 0
  /\ call = [s \in Sessions |-> "unused"]
  /\ conn = [s \in Sessions |-> "none"]
  /\ promise = [s \in Sessions |-> "none"]
  /\ stream = [s \in Sessions |-> "none"]
  /\ context = [s \in Sessions |-> "none"]
  /\ processor = [s \in Sessions |-> NoProcessor]
  /\ upload = [pc |-> "idle", file |-> ""]
  /\ uploads = 0
  /\ messages = 0
  /\ received = <<>>
  /\ delivered = <<>>
  /\ sent = {}
  /\ inputData = <<>>
  /\ pcmBlob = NoBlob
  /\ pcmPc = "idle"

\* ---------------------------------------------------------------- App callbacks
\* handleTranscriptionUpdate: the new value of currentTranscription.
HandleTranscriptionUpdate(text) == text

\* handleTranscriptionComplete appending to the list its closure captured when
\* the callback was created (the empty list) instead of the current one.
HandleTranscriptionCompleteStale(ts, text, t) ==
  [transcripts |->
     IF Truthy(Trim(text))
     THEN <<[id |-> t, text |-> text, from |-> "Live Recording"]>>
     ELSE ts,
   currentTranscription |-> <<>>]

\* handleTranscriptionComplete testing the text itself instead of text.trim().
HandleTranscriptionCompleteNoTrim(ts, text, t) ==
  [transcripts |->
     IF Truthy(text)
     THEN Append(ts, [id |-> t, text |-> text, from |-> "Live Recording"])
     ELSE ts,
   currentTranscription |-> <<>>]

\* handleTranscriptionComplete without setCurrentTranscription(''): the display
\* keeps the text it showed.
HandleTranscriptionCompleteKeepsDisplay(ts, text, t) ==
  [transcripts |->
     IF Truthy(Trim(text))
     THEN Append(ts, [id |-> t, text |-> text, from |-> "Live Recording"])
     ELSE ts,
   currentTranscription |-> text]

\* handleTranscriptionComplete at clock value t on the list ts: the new
\* transcripts and currentTranscription.
HandleTranscriptionComplete(ts, text, t) ==
  [transcripts |->
     IF Truthy(Trim(text))
     THEN Append(ts, [id |-> t, text |-> text, from |-> "Live Recording"])
     ELSE ts,
   currentTranscription |-> <<>>]

\* ---------------------------------------------------------------- hook
\* The refs and resources stopAudioProcessing works on, as one record.
Resources ==
  [mediaStreamRef |-> mediaStreamRef, scriptProcessorRef |-> scriptProcessorRef,
   audioContextRef |-> audioContextRef,
   stream |-> stream, processor |-> processor, context |-> context]

SetResources(r) ==
  /\ mediaStreamRef' = r.mediaStreamRef
  /\ scriptProcessorRef' = r.scriptProcessorRef
  /\ audioContextRef' = r.audioContextRef
  /\ stream' = r.stream
  /\ processor' = r.processor
  /\ context' = r.context

\* stopAudioProcessing closing the audio context without dropping its ref.
StopAudioProcessingKeepsContextRef(r) ==
  LET r1 == IF r.mediaStreamRef # NULL
            THEN [r EXCEPT !.stream[r.mediaStreamRef] = "stopped",
                           !.mediaStreamRef = NULL]
            ELSE r
      r2 == IF r1.scriptProcessorRef # NULL
            THEN [r1 EXCEPT !.processor[r1.scriptProcessorRef].st = "disconnected",
                            !.scriptProcessorRef = NULL]
            ELSE r1
  IN  IF r2.audioContextRef # NULL /\ r2.context[r2.audioContextRef] # "closed"
      THEN [r2 EXCEPT !.context[r2.audioContextRef] = "closed"]
      ELSE r2

\* stopAudioProcessing returning after it has stopped the microphone tracks.
StopAudioProcessingTracksOnly(r) ==
  IF r.mediaStreamRef # NULL
  THEN [r EXCEPT !.stream[r.mediaStreamRef] = "stopped", !.mediaStreamRef = NULL]
  ELSE r

StopAudioProcessing(r) ==
  LET r1 == IF r.mediaStreamRef # NULL
            THEN [r EXCEPT !.stream[r.mediaStreamRef] = "stopped",
                           !.mediaStreamRef = NULL]
            ELSE r
      r2 == IF r1.scriptProcessorRef # NULL
            THEN [r1 EXCEPT !.processor[r1.scriptProcessorRef].st = "disconnected",
                            !.scriptProcessorRef = NULL]
            ELSE r1
  IN  IF r2.audioContextRef # NULL /\ r2.context[r2.audioContextRef] # "closed"
      THEN [r2 EXCEPT !.context[r2.audioContextRef] = "closed",
                      !.audioContextRef = NULL]
      ELSE r2

\* The catch block of start: onError(message), both flags off, audio torn down.
StartCatch(s, message, r) ==
  /\ error' = message
  /\ isInitializing' = FALSE
  /\ isRecording' = FALSE
  /\ SetResources(StopAudioProcessing(r))
  /\ call' = [call EXCEPT ![s] = "caught"]

\* start(), up to its first await.
Start ==
  /\ starts < MaxSessions
  /\ starts' = starts + 1
  /\ IF ~hasApiKey
     THEN StartCatch(starts + 1, "API_KEY environment variable not set.", Resources)
     ELSE /\ isInitializing' = TRUE
          /\ call' = [call EXCEPT ![starts + 1] = "awaitMedia"]
          /\ error' = NullError
          /\ UNCHANGED <<isRecording, mediaStreamRef, scriptProcessorRef,
                         audioContextRef, stream, processor, context>>
  /\ UNCHANGED <<sessionPromiseRef, currentInputTranscriptionRef, transcripts,
                 currentTranscription, conn, promise, delivered>>

\* start(), resumed with the microphone stream: the audio context is created
\* (or its constructor throws) and connect is called.
StartWithMedia(s) ==
  /\ call[s] = "awaitMedia"
  /\ \E contextThrows \in BOOLEAN :
       LET r == [Resources EXCEPT !.mediaStreamRef = s, !.stream[s] = "live"]
       IN  IF contextThrows
           THEN /\ StartCatch(s, "Failed to construct 'AudioContext'", r)
                /\ UNCHANGED <<sessionPromiseRef, conn, promise>>
           ELSE /\ SetResources([r EXCEPT !.audioContextRef = s,
                                          !.context[s] = "running"])
                /\ sessionPromiseRef' = s
                /\ conn' = [conn EXCEPT ![s] = "connecting"]
                /\ promise' = [promise EXCEPT ![s] = "pending"]
                /\ call' = [call EXCEPT ![s] = "returned"]
                /\ UNCHANGED <<isRecording, isInitializing, error>>
  /\ UNCHANGED <<hasApiKey, currentInputTranscriptionRef, transcripts,
                 currentTranscription, mode, isProcessingFile, now, starts,
                 upload, uploads, messages, histVars>>
  /\ UNCHANGED pcmVars

\* start(), resumed with getUserMedia's rejection.
StartMediaRejected(s) ==
  /\ call[s] = "awaitMedia"
  /\ StartCatch(s, "Permission denied", Resources)
  /\ UNCHANGED <<hasApiKey, sessionPromiseRef, currentInputTranscriptionRef,
                 transcripts, currentTranscription, mode, isProcessingFile, now,
                 starts, conn, promise, upload, uploads, messages, histVars>>
  /\ UNCHANGED pcmVars

\* The finally block of stop clearing the buffer before it reads it for
\* onTranscriptionComplete.
StopFinallyClearsFirst(s, text) ==
  /\ sessionPromiseRef' = NULL
  /\ SetResources(StopAudioProcessing(Resources))
  /\ IF Truthy(text)
     THEN /\ currentTranscription' = <<>>
          /\ delivered' = Append(delivered, [text |-> <<>>, on |-> s, by |-> "stop"])
          /\ currentInputTranscriptionRef' = <<>>
          /\ UNCHANGED transcripts
     ELSE UNCHANGED <<transcripts, currentTranscription, delivered,
                      currentInputTranscriptionRef>>

\* The finally block of stop on the buffer text: the ref is dropped, audio is
\* torn down and pending text is handed to onTranscriptionComplete.
StopFinally(s, text) ==
  LET done == HandleTranscriptionComplete(transcripts, text, now)
  IN  /\ sessionPromiseRef' = NULL
      /\ SetResources(StopAudioProcessing(Resources))
      /\ IF Truthy(text)
         THEN /\ transcripts' = done.transcripts
              /\ currentTranscription' = done.currentTranscription
              /\ delivered' = Append(delivered, [text |-> text, on |-> s, by |-> "stop"])
              /\ currentInputTranscriptionRef' = <<>>
         ELSE UNCHANGED <<transcripts, currentTranscription, delivered,
                          currentInputTranscriptionRef>>

\* stop().  The session promise is settled whenever stop can be called
\* (StopNeverSuspends below), so the await resumes in the same task: with the
\* session, which is closed (close may throw), or with the rejection.
Stop ==
  IF sessionPromiseRef = NULL
  THEN /\ error' = NullError
       /\ UNCHANGED <<hookVars, transcripts, currentTranscription, conn, stream,
                      processor, context, delivered, starts, call, promise>>
  ELSE LET s == sessionPromiseRef
       IN
       /\ promise[s] # "pending"
       /\ isRecording' = FALSE
       /\ \E closeThrows \in BOOLEAN :
            /\ (promise[s] = "rejected") => closeThrows
            /\ conn' = IF promise[s] = "resolved" /\ conn[s] = "open"
                       THEN [conn EXCEPT ![s] = "closed"] ELSE conn
            /\ error' = IF closeThrows
                        THEN "Failed to close the connection properly."
                        ELSE NullError
       /\ StopFinally(s, currentInputTranscriptionRef)
       /\ UNCHANGED <<isInitializing, starts, call, promise>>

\* toggleRecording: the record button's click handler; the button is shown in
\* live mode and disabled while initializing.
ToggleRecording ==
  /\ mode = "live"
  /\ ~isInitializing
  /\ IF isRecording THEN Stop ELSE Start
  /\ UNCHANGED <<hasApiKey, mode, isProcessingFile, now, upload, uploads, messages,
                 received, sent>>
  /\ UNCHANGED pcmVars

\* ---------------------------------------------------------------- SDK callbacks
\* onopen without setIsInitializing(false).
OnOpenHandlerKeepsInitializing(s) ==
  IF mediaStreamRef = NULL \/ audioContextRef = NULL
  THEN UNCHANGED <<scriptProcessorRef, processor, isInitializing, isRecording>>
  ELSE /\ scriptProcessorRef' = s
       /\ processor' = [processor EXCEPT
            ![s] = [st |-> "connected", ctx |-> audioContextRef,
                    src |-> mediaStreamRef]]
       /\ isRecording' = TRUE
       /\ UNCHANGED isInitializing

\* The onopen callback, called for session s: the script processor is created
\* and wired, and the hook turns to recording.
OnOpenHandler(s) ==
  IF mediaStreamRef = NULL \/ audioContextRef = NULL
  THEN UNCHANGED <<scriptProcessorRef, processor, isInitializing, isRecording>>
  ELSE /\ scriptProcessorRef' = s
       /\ processor' = [processor EXCEPT
            ![s] = [st |-> "connected", ctx |-> audioContextRef,
                    src |-> mediaStreamRef]]
       /\ isInitializing' = FALSE
       /\ isRecording' = TRUE

\* The socket of session s opens: onopen is called and the connect promise
\* resolves in the same task.
OnOpen(s) ==
  /\ conn[s] = "connecting"
  /\ conn' = [conn EXCEPT ![s] = "open"]
  /\ promise' = [promise EXCEPT ![s] = "resolved"]
  /\ OnOpenHandler(s)
  /\ UNCHANGED <<hasApiKey, sessionPromiseRef, mediaStreamRef, audioContextRef,
                 currentInputTranscriptionRef, appVars, now, starts, call, stream,
                 context, upload, uploads, messages, histVars>>
  /\ UNCHANGED pcmVars

\* OnMessageHandler without the reset of the buffer on turnComplete.
OnMessageHandlerNoReset(buf, m) ==
  LET acc == IF m.hasInput THEN buf \o m.text ELSE buf
  IN  [updated   |-> m.hasInput,
       update    |-> acc,
       completed |-> m.turnComplete,
       complete  |-> acc,
       buffer    |-> acc]

\* The onmessage callback on the buffer buf: the new buffer, whether
\* onTranscriptionUpdate / onTranscriptionComplete are called, and with what.
OnMessageHandler(buf, m) ==
  LET acc == IF m.hasInput THEN buf \o m.text ELSE buf
  IN  [updated   |-> m.hasInput,
       update    |-> acc,
       completed |-> m.turnComplete,
       complete  |-> acc,
       buffer    |-> IF m.turnComplete THEN <<>> ELSE acc]

\* Message m arrives on the socket of session s: onmessage is called.
OnMessage(s, m) ==
  /\ conn[s] = "open"
  /\ messages < MaxMessages
  /\ messages' = messages + 1
  /\ LET h == OnMessageHandler(currentInputTranscriptionRef, m)
         shown == IF h.updated THEN HandleTranscriptionUpdate(h.update)
                  ELSE currentTranscription
         done == HandleTranscriptionComplete(transcripts, h.complete, now)
     IN  /\ currentInputTranscriptionRef' = h.buffer
         /\ received' = IF m.hasInput THEN Append(received, m.text) ELSE received
         /\ IF h.completed
            THEN /\ transcripts' = done.transcripts
                 /\ currentTranscription' = done.currentTranscription
                 /\ delivered' = Append(delivered,
                       [text |-> h.complete, on |-> s, by |-> "turnComplete"])
            ELSE /\ currentTranscription' = shown
                 /\ UNCHANGED <<transcripts, delivered>>
  /\ UNCHANGED <<hasApiKey, isRecording, isInitializing, sessionPromiseRef,
                 mediaStreamRef, audioContextRef, scriptProcessorRef, error, mode,
                 isProcessingFile, now, starts, call, conn, promise, stream, context,
                 processor, upload, uploads, sent>>
  /\ UNCHANGED pcmVars

\* onerror without setIsRecording(false).
OnErrorHandlerKeepsRecording ==
  /\ error' = "Connection error"
  /\ isInitializing' = FALSE
  /\ SetResources(StopAudioProcessing(Resources))
  /\ UNCHANGED isRecording

\* The onerror callback.
OnErrorHandler ==
  /\ error' = "Connection error"
  /\ isRecording' = FALSE
  /\ isInitializing' = FALSE
  /\ SetResources(StopAudioProcessing(Resources))

\* The socket of session s fails: onerror is called.
OnError(s) ==
  /\ conn[s] \in {"connecting", "open"}
  /\ conn' = [conn EXCEPT ![s] = "failed"]
  /\ OnErrorHandler
  /\ UNCHANGED <<hasApiKey, sessionPromiseRef, currentInputTranscriptionRef,
                 transcripts, currentTranscription, mode, isProcessingFile, now,
                 starts, call, promise, upload, uploads, messages, histVars>>
  /\ UNCHANGED pcmVars

\* onclose of session s, closed by the server: the callback does nothing.
OnClose(s) ==
  /\ conn[s] = "open"
  /\ conn' = [conn EXCEPT ![s] = "ended"]
  /\ UNCHANGED <<hookVars, appVars, hasApiKey, now, starts, call, promise, stream,
                 context, processor, upload, uploads, messages, histVars>>
  /\ UNCHANGED pcmVars

\* The promise returned by connect rejects before the socket opens.  start()
\* has returned and nothing awaits the promise: no code of the hook runs.
ConnectRejected(s) ==
  /\ conn[s] = "connecting"
  /\ conn' = [conn EXCEPT ![s] = "rejected"]
  /\ promise' = [promise EXCEPT ![s] = "rejected"]
  /\ UNCHANGED <<hookVars, appVars, hasApiKey, now, starts, call, stream, context,
                 processor, upload, uploads, messages, histVars>>
  /\ UNCHANGED pcmVars

\* onaudioprocess of the script processor created by onopen of session p: the
\* chunk goes to whatever session sessionPromiseRef holds now, once (and if)
\* its promise is resolved.
OnAudioProcess(p) ==
  /\ processor[p].st = "connected"
  /\ context[processor[p].ctx] = "running"
  /\ sent' = IF sessionPromiseRef # NULL /\ promise[sessionPromiseRef] = "resolved"
             THEN sent \cup {[from |-> p, on |-> sessionPromiseRef,
                              late |-> conn[sessionPromiseRef] \in {"closed", "failed"}]}
             ELSE sent
  /\ UNCHANGED <<hookVars, appVars, envVars, received, delivered>>
  /\ UNCHANGED pcmVars

\* ---------------------------------------------------------------- file upload
FileNames == {"memo.wav"}

FileChar(g) == Char(g, 0)

\* response.text of generateContent: a string, or undefined.
Responses ==
  [defined : {TRUE}, text : {<<FileChar("a")>>, <<FileChar(" ")>>, <<>>}]
    \cup [defined : {FALSE}, text : {<<>>}]

\* handleFileUpload, up to its first await; the upload button is shown in file
\* mode and disabled while a file is processed.
HandleFileUpload(f) ==
  /\ mode = "file"
  /\ ~isProcessingFile
  /\ upload.pc = "idle"
  /\ uploads < MaxUploads
  /\ uploads' = uploads + 1
  /\ IF ~hasApiKey
     THEN /\ error' = "API_KEY environment variable not set."
          /\ UNCHANGED <<isProcessingFile, upload>>
     ELSE /\ error' = NullError
          /\ isProcessingFile' = TRUE
          /\ upload' = [pc |-> "reading", file |-> f]
  /\ UNCHANGED <<hookVars, hasApiKey, transcripts, currentTranscription, mode, now,
                 starts, call, conn, promise, stream, context, processor, messages,
                 histVars>>
  /\ UNCHANGED pcmVars

\* handleFileUpload, resumed after toBase64.
FileRead(ok) ==
  /\ upload.pc = "reading"
  /\ IF ok
     THEN /\ upload' = [upload EXCEPT !.pc = "generating"]
          /\ UNCHANGED <<error, isProcessingFile>>
     ELSE /\ error' = "An unknown error occurred during file transcription."
          /\ isProcessingFile' = FALSE
          /\ upload' = [pc |-> "idle", file |-> ""]
  /\ UNCHANGED <<hookVars, hasApiKey, transcripts, currentTranscription, mode, now,
                 starts, call, conn, promise, stream, context, processor, uploads,
                 messages, histVars>>
  /\ UNCHANGED pcmVars

\* handleFileUpload resetting isProcessingFile at the end of its try block
\* instead of in finally.
FileTranscribedNoFinally(ok, response) ==
  /\ upload.pc = "generating"
  /\ IF ~ok
     THEN /\ error' = "API error"
          /\ UNCHANGED <<transcripts, isProcessingFile>>
     ELSE IF ~response.defined
     THEN /\ error' = "Cannot read properties of undefined (reading 'trim')"
          /\ UNCHANGED <<transcripts, isProcessingFile>>
     ELSE /\ transcripts' =
               IF Truthy(Trim(response.text))
               THEN Append(transcripts,
                           [id |-> now, text |-> response.text, from |-> upload.file])
               ELSE transcripts
          /\ isProcessingFile' = FALSE
          /\ UNCHANGED error
  /\ upload' = [pc |-> "idle", file |-> ""]
  /\ UNCHANGED <<hookVars, hasApiKey, currentTranscription, mode, now, starts, call,
                 conn, promise, stream, context, processor, uploads, messages,
                 histVars>>
  /\ UNCHANGED pcmVars

\* handleFileUpload, resumed after generateContent: rejected, or resolved
\* with a response.
FileTranscribed(ok, response) ==
  /\ upload.pc = "generating"
  /\ IF ~ok
     THEN /\ error' = "API error"
          /\ UNCHANGED transcripts
     ELSE IF ~response.defined
     THEN /\ error' = "Cannot read properties of undefined (reading 'trim')"
          /\ UNCHANGED transcripts
     ELSE /\ transcripts' =
               IF Truthy(Trim(response.text))
               THEN Append(transcripts,
                           [id |-> now, text |-> response.text, from |-> upload.file])
               ELSE transcripts
          /\ UNCHANGED error
  /\ isProcessingFile' = FALSE
  /\ upload' = [pc |-> "idle", file |-> ""]
  /\ UNCHANGED <<hookVars, hasApiKey, currentTranscription, mode, now, starts, call,
                 conn, promise, stream, context, processor, uploads, messages,
                 histVars>>
  /\ UNCHANGED pcmVars

\* ---------------------------------------------------------------- the rest of the UI
\* The Live / File Upload buttons.
SetMode(m) ==
  /\ mode # m
  /\ mode' = m
  /\ UNCHANGED <<hookVars, transcripts, currentTranscription, error, isProcessingFile,
                 envVars, histVars>>
  /\ UNCHANGED pcmVars

\* The millisecond clock read by Date.now() advances.
Tick ==
  /\ now < MaxNow
  /\ now' = now + 1
  /\ UNCHANGED <<hookVars, appVars, hasApiKey, starts, call, conn, promise, stream,
                 context, processor, upload, uploads, messages, histVars>>
  /\ UNCHANGED pcmVars

Next ==
  \/ ToggleRecording
  \/ \E s \in Sessions : StartWithMedia(s)
  \/ \E s \in Sessions : StartMediaRejected(s)
  \/ \E s \in Sessions : OnOpen(s)
  \/ \E s \in Sessions : \E m \in Messages(s) : OnMessage(s, m)
  \/ \E s \in Sessions : OnError(s)
  \/ \E s \in Sessions : OnClose(s)
  \/ \E s \in Sessions : ConnectRejected(s)
  \/ \E p \in Sessions : OnAudioProcess(p)
  \/ \E f \in FileNames : HandleFileUpload(f)
  \/ \E ok \in BOOLEAN : FileRead(ok)
  \/ \E ok \in BOOLEAN : \E r \in Responses : FileTranscribed(ok, r)
  \/ \E m \in {"live", "file"} : SetMode(m)
  \/ Tick

Spec == Init /\ [][Next]_vars

\* The live-recording side alone: the user stays in live mode and uploads no
\* file.  The upload handlers write none of the hook's state.
NextLive ==
  \/ ToggleRecording
  \/ \E s \in Sessions : StartWithMedia(s)
  \/ \E s \in Sessions : StartMediaRejected(s)
  \/ \E s \in Sessions : OnOpen(s)
  \/ \E s \in Sessions : \E m \in Messages(s) : OnMessage(s, m)
  \/ \E s \in Sessions : OnError(s)
  \/ \E s \in Sessions : OnClose(s)
  \/ \E s \in Sessions : ConnectRejected(s)
  \/ \E p \in Sessions : OnAudioProcess(p)
  \/ Tick

SpecLive == Init /\ [][NextLive]_vars

\* An upload in flight goes on: the FileReader fires load or error, and the
\* generateContent promise settles.
FairSpec ==
  /\ Spec
  /\ WF_vars(\E ok \in BOOLEAN : FileRead(ok))
  /\ WF_vars(\E ok \in BOOLEAN : \E r \in Responses : FileTranscribed(ok, r))

\* ---------------------------------------------------------------- createPcmBlob
\* Longest buffer of samples handed to createPcmBlob.
MaxSamples == 2

\* A Float32 sample is the exact fraction n / SampleDenominator and is written
\* as its numerator n; every such fraction with |n| <= 2^16 is a Float32 value.
SampleDenominator == 65536

\* The samples tried, all in [-1.0, 1.0]: both ends of the range, the values
\* next to them, half scale, the smallest magnitudes and zero.
Samples ==
  {-SampleDenominator, -(SampleDenominator - 1), -(SampleDenominator \div 2), -1, 0,
   1, SampleDenominator \div 2, SampleDenominator - 1, SampleDenominator}

\* The buffers of getChannelData(0).
InputBuffers == UNION {[1..n -> Samples] : n \in 0..MaxSamples}

\* The factor of data[i] * 32768.
PcmScale == 32768

\* The integer part of data[i] * 32768, rounded towards zero: the first step of
\* storing the product in an Int16Array.  The whole and the fractional part of
\* the sample are multiplied separately, which keeps every intermediate value
\* below 2^31.
Truncate(sample) ==
  LET a == IF sample >= 0 THEN sample ELSE -sample
      q == (a \div SampleDenominator) * PcmScale
             + ((a % SampleDenominator) * PcmScale) \div SampleDenominator
  IN  IF sample >= 0 THEN q ELSE -q

\* The second step: the integer modulo 2^16, read as a signed 16-bit value.
ToInt16(n) ==
  LET m == n % (2^16)
  IN  IF m >= 2^15 THEN m - 2^16 ELSE m

\* The two bytes of an Int16Array element as new Uint8Array(int16.buffer)
\* shows them: low byte first.
Uint8Pair(v) ==
  LET u == v % (2^16)
  IN  <<u % 256, u \div 256>>

\* createPcmBlob: the Int16Array it fills and the bytes it hands to encode.
CreatePcmBlob(data) ==
  LET l == Len(data)
      int16 == [i \in 1..l |-> ToInt16(Truncate(data[i]))]
  IN  [int16 |-> int16,
       bytes |-> [k \in 1..(2 * l) |-> Uint8Pair(int16[(k + 1) \div 2])[2 - (k % 2)]]]

\* An audioprocess event brings a buffer of samples.
AudioProcessingEvent(d) ==
  /\ pcmPc # "call"
  /\ inputData' = d
  /\ pcmBlob' = NoBlob
  /\ pcmPc' = "call"
  /\ UNCHANGED <<hookVars, appVars, envVars, histVars>>

\* const pcmBlob = createPcmBlob(inputData)
CreatePcmBlobCall ==
  /\ pcmPc = "call"
  /\ pcmBlob' = CreatePcmBlob(inputData)
  /\ pcmPc' = "return"
  /\ UNCHANGED <<hookVars, appVars, envVars, histVars, inputData>>

\* The encoding alone, applied to every buffer of InputBuffers.
NextPcm ==
  \/ \E d \in InputBuffers : AudioProcessingEvent(d)
  \/ CreatePcmBlobCall

SpecPcm == Init /\ [][NextPcm]_vars

\* ---------------------------------------------------------------- properties
\* Types of the state.
TypeOK ==
  /\ isRecording \in BOOLEAN /\ isInitializing \in BOOLEAN
  /\ sessionPromiseRef \in Sessions \cup {NULL}
  /\ mediaStreamRef \in Sessions \cup {NULL}
  /\ audioContextRef \in Sessions \cup {NULL}
  /\ scriptProcessorRef \in Sessions \cup {NULL}
  /\ starts \in 0..MaxSessions /\ messages \in 0..MaxMessages
  /\ uploads \in 0..MaxUploads /\ now \in 0..MaxNow
  /\ mode \in {"live", "file"}
  /\ upload.pc \in {"idle", "reading", "generating"}
  /\ inputData \in InputBuffers
  /\ pcmPc \in {"idle", "call", "return"}
  /\ Len(pcmBlob.bytes) = 2 * Len(pcmBlob.int16)

\* stop() is only reachable through the record button while recording, and then
\* the promise it awaits is settled: stop never suspends at its await.
StopNeverSuspends ==
  (isRecording /\ sessionPromiseRef # NULL) => promise[sessionPromiseRef] # "pending"

\* A connected script processor never finds a pending promise in
\* sessionPromiseRef: no then-callback of onaudioprocess is left waiting.
NoSendWaits ==
  \A p \in Sessions :
    (processor[p].st = "connected" /\ context[processor[p].ctx] = "running"
       /\ sessionPromiseRef # NULL)
      => promise[sessionPromiseRef] # "pending"

\* The concatenation of a sequence of strings.
RECURSIVE Flatten(_)
Flatten(ss) == IF ss = <<>> THEN <<>> ELSE Head(ss) \o Flatten(Tail(ss))

DeliveredTexts == [i \in 1..Len(delivered) |-> delivered[i].text]

\* The text a message adds to the buffer.
FragmentOf(m) == IF m.hasInput THEN m.text ELSE <<>>

\* C1, in every state: the completed transcriptions, in order, followed by the
\* buffer are exactly the fragments received, in order (so every fragment is in
\* one completed transcription at most).
C1_Conservation ==
  Flatten(DeliveredTexts) \o currentInputTranscriptionRef = Flatten(received)

\* C1, on every message carrying turnComplete: onTranscriptionComplete is
\* called with the buffer followed by the message's own fragment, and the
\* buffer is empty afterwards.
C1_TurnCompleteStep ==
  \A s \in Sessions : \A m \in Messages(s) :
    (OnMessage(s, m) /\ m.turnComplete) =>
      /\ delivered' = Append(delivered,
           [text |-> currentInputTranscriptionRef \o FragmentOf(m),
            on |-> s, by |-> "turnComplete"])
      /\ currentInputTranscriptionRef' = <<>>

\* C1: fragment reassembly.  A turnComplete message hands
\* onTranscriptionComplete the in-order concatenation of the fragments received
\* since the buffer was last reset, its own fragment included, and empties the
\* buffer; no fragment is in two completed transcriptions.
C1_FragmentReassembly == []C1_Conservation /\ [][C1_TurnCompleteStep]_vars

\* C1 witness: a turnComplete delivered two fragments as one text, the second
\* carried by the turnComplete message itself.
C1_Witness ==
  /\ Len(received) = 2
  /\ Len(delivered) = 1
  /\ delivered[1].by = "turnComplete"
  /\ delivered[1].text = received[1] \o received[2]
  /\ currentInputTranscriptionRef = <<>>
  /\ messages = 2

\* C2: every text handed to onTranscriptionComplete holds fragments of one
\* session only, the session that completes it.
C2_OneSessionPerTranscription ==
  \A i \in 1..Len(delivered) :
    \A j \in 1..Len(delivered[i].text) :
      delivered[i].text[j].sid = delivered[i].on

\* The record handleTranscriptionComplete / handleFileUpload builds at clock t.
Record(t, text, source) == [id |-> t, text |-> text, from |-> source]

\* C3, on every step: the list keeps what it held, at the same positions, and
\* grows by one record at most; a live completion (a call of
\* onTranscriptionComplete) and an upload completion with non-blank text add
\* exactly one record at the end, a live completion with blank text adds none.
C3_AppendOnlyStep ==
  /\ Len(transcripts') \in {Len(transcripts), Len(transcripts) + 1}
  /\ SubSeq(transcripts', 1, Len(transcripts)) = transcripts
  /\ delivered' # delivered =>
       LET text == delivered'[Len(delivered')].text
       IN  transcripts' = IF Truthy(Trim(text))
                          THEN Append(transcripts, Record(now, text, "Live Recording"))
                          ELSE transcripts
  /\ \A r \in Responses :
       (FileTranscribed(TRUE, r) /\ r.defined /\ Truthy(Trim(r.text))) =>
         transcripts' = Append(transcripts, Record(now, r.text, upload.file))

\* C3: the transcript list is append-only and its records are immutable: every
\* completion with non-blank text adds exactly one record at the end, and every
\* record keeps its position, id, text and source label.
C3_AppendOnly == [][C3_AppendOnlyStep]_vars

\* C3 witness: an upload completion and a live completion have each added a
\* record, the first record still in place.
C3_Witness ==
  /\ Len(transcripts) = 2
  /\ transcripts[1].from \in FileNames
  /\ transcripts[2].from = "Live Recording"

\* A step of stop() past its guard: only stop sets sessionPromiseRef to null.
StopStep == sessionPromiseRef # NULL /\ sessionPromiseRef' = NULL

\* C4, on every stop with text pending: one call of onTranscriptionComplete
\* with that text, buffer and in-progress display cleared, and one
\* 'Live Recording' record appended if the text is not blank (none otherwise).
C4_StopCommitsStep ==
  (StopStep /\ Truthy(currentInputTranscriptionRef)) =>
    LET text == currentInputTranscriptionRef
    IN  /\ delivered' = Append(delivered,
              [text |-> text, on |-> sessionPromiseRef, by |-> "stop"])
        /\ currentInputTranscriptionRef' = <<>>
        /\ currentTranscription' = <<>>
        /\ transcripts' = IF Truthy(Trim(text))
                          THEN Append(transcripts, Record(now, text, "Live Recording"))
                          ELSE transcripts

\* C4: stop() on a session whose buffer holds text commits it: exactly one
\* onTranscriptionComplete call with that text, whether or not closing threw;
\* the buffer and the in-progress display are empty afterwards; one
\* 'Live Recording' record is appended if the text is not blank.
C4_StopCommits == [][C4_StopCommitsStep]_vars

\* C4 witness: stop has committed non-blank pending text although closing the
\* session threw.
C4_Witness ==
  /\ error = "Failed to close the connection properly."
  /\ Len(delivered) = 1
  /\ delivered[1].by = "stop"
  /\ Truthy(Trim(delivered[1].text))
  /\ Len(transcripts) = 1
  /\ transcripts[1].text = delivered[1].text
  /\ currentInputTranscriptionRef = <<>>

\* C5, on every stop: the session is closed if its promise resolved, no
\* microphone stream is live, no script processor connected, no audio context
\* running, and the four refs are null.
C5_StopReleasesStep ==
  StopStep =>
    /\ sessionPromiseRef' = NULL
    /\ mediaStreamRef' = NULL
    /\ scriptProcessorRef' = NULL
    /\ audioContextRef' = NULL
    /\ promise[sessionPromiseRef] = "resolved" =>
         conn'[sessionPromiseRef] \notin {"connecting", "open"}
    /\ \A x \in Sessions :
         /\ stream'[x] # "live"
         /\ processor'[x].st # "connected"
         /\ context'[x] # "running"

\* C5: after stop() on a held session the session is closed (when its promise
\* resolved), every microphone track is stopped, the script processor is
\* disconnected, the audio context is closed and the session, media-stream,
\* script-processor and audio-context refs are null, also when closing fails.
C5_StopReleases == [][C5_StopReleasesStep]_vars

\* C5 witness: stop has released a recording session although closing threw.
C5_Witness ==
  /\ error = "Failed to close the connection properly."
  /\ sessionPromiseRef = NULL
  /\ \E s \in Sessions :
       /\ conn[s] = "closed"
       /\ stream[s] = "stopped"
       /\ processor[s].st = "disconnected"
       /\ context[s] = "closed"

\* The last start() has failed: its catch block ran, its connect promise
\* rejected, or its connection raised an error event.
StartFailed(s) == call[s] = "caught" \/ conn[s] \in {"rejected", "failed"}

\* C6: every failure of start() is surfaced and ends in the idle state: once
\* the latest start has failed (no API key, microphone refused, audio context
\* not created, connect rejected, connection error), onError has set the
\* message, isInitializing and isRecording are false and the media handles are
\* released; the hook does not stay initializing.
C6_StartFailureSurfaced ==
  \A s \in Sessions :
    (s = starts /\ StartFailed(s)) =>
      /\ error # NullError
      /\ ~isInitializing
      /\ ~isRecording
      /\ mediaStreamRef = NULL
      /\ audioContextRef = NULL
      /\ scriptProcessorRef = NULL

\* The failures that start()'s catch block and onerror do handle.
C6_HandledFailuresSurfaced ==
  \A s \in Sessions :
    (s = starts /\ (call[s] = "caught" \/ conn[s] = "failed")) =>
      /\ error # NullError
      /\ ~isInitializing
      /\ ~isRecording
      /\ mediaStreamRef = NULL
      /\ audioContextRef = NULL
      /\ scriptProcessorRef = NULL

\* The messages handleFileUpload's catch block sets.
UploadErrors ==
  {"API_KEY environment variable not set.",
   "An unknown error occurred during file transcription.",
   "API error",
   "Cannot read properties of undefined (reading 'trim')"}

\* What a failed upload leaves: its message set, the list as it was, the
\* processing flag off.
UploadFailedStep ==
  /\ error' \in UploadErrors
  /\ transcripts' = transcripts
  /\ ~isProcessingFile'

\* C7, in every state: isProcessingFile is true exactly while an upload is in
\* flight, and an upload in flight has set no error.
C7_InFlight ==
  /\ isProcessingFile <=> upload.pc # "idle"
  /\ upload.pc # "idle" => error \notin UploadErrors

\* C7, on every step of an upload: a failure (no API key, read error, API
\* error, response without text) sets the error and leaves the list; a success
\* leaves the error and appends one record named after the file if the text is
\* not blank; both reset isProcessingFile.
C7_UploadStep ==
  /\ \A f \in FileNames :
       HandleFileUpload(f) => IF hasApiKey THEN isProcessingFile' ELSE UploadFailedStep
  /\ FileRead(FALSE) => UploadFailedStep
  /\ \A r \in Responses :
       /\ FileTranscribed(FALSE, r) => UploadFailedStep
       /\ (FileTranscribed(TRUE, r) /\ ~r.defined) => UploadFailedStep
       /\ (FileTranscribed(TRUE, r) /\ r.defined) =>
            /\ ~isProcessingFile'
            /\ error' = error
            /\ transcripts' = IF Truthy(Trim(r.text))
                              THEN Append(transcripts, Record(now, r.text, upload.file))
                              ELSE transcripts

\* C7: file upload outcome.  isProcessingFile is true while an upload is in
\* flight and is eventually reset to false; a failure sets the error message
\* and leaves the list unchanged; a success with non-blank text appends exactly
\* one record labelled with the file's name and does not set the error.
C7_FileUploadOutcome ==
  /\ []C7_InFlight
  /\ [][C7_UploadStep]_vars
  /\ (isProcessingFile ~> ~isProcessingFile)

\* C7 witness: an upload has succeeded: its record is in the list, the flag is
\* reset and the error is null.
C7_Witness ==
  /\ uploads = 1
  /\ ~isProcessingFile
  /\ error = NullError
  /\ Len(transcripts) = 1
  /\ transcripts[1].from \in FileNames

\* A step that invokes start().
StartStep == starts' = starts + 1

\* No start() is between its invocation and the opening (or failure) of its
\* connection.
NoStartInProgress ==
  \A s \in Sessions : call[s] # "awaitMedia" /\ conn[s] # "connecting"

\* C8, on every step, but for what a click while idle leads to.
C8_ButtonStep ==
  /\ StartStep => (~isRecording /\ ~isInitializing /\ NoStartInProgress)
  /\ \A s \in Sessions : OnOpen(s) => (isRecording' /\ ~isInitializing')
  /\ (ToggleRecording /\ isRecording) => (StopStep /\ ~isRecording')

\* C8 as claimed: isRecording and isInitializing are never both true; a click
\* while idle moves to initializing and start is never invoked while a start is
\* in progress or while recording; the connection opening moves to recording;
\* a click while recording invokes stop and moves to not-recording.
C8_ButtonTogglesAsClaimed ==
  /\ [](~(isRecording /\ isInitializing))
  /\ [][C8_ButtonStep /\ (StartStep => isInitializing')]_vars

\* C8 amended: as claimed, but a click while idle moves to initializing only
\* when the API key is set; with the key missing the same click leaves the hook
\* idle with the error message set.
C8_ButtonToggles ==
  /\ [](~(isRecording /\ isInitializing))
  /\ [][/\ C8_ButtonStep
        /\ StartStep =>
             IF hasApiKey
             THEN isInitializing' /\ ~isRecording'
             ELSE /\ ~isInitializing' /\ ~isRecording'
                  /\ error' = "API_KEY environment variable not set."]_vars

\* C8 witness: a full cycle of the button: clicked while idle, the connection
\* opened, clicked while recording.
C8_Witness ==
  /\ hasApiKey
  /\ starts = 1
  /\ conn[1] = "closed"
  /\ ~isRecording
  /\ ~isInitializing

C10_RecordingImpliesResources ==
  isRecording =>
    /\ sessionPromiseRef # NULL
    /\ mediaStreamRef # NULL
    /\ audioContextRef # NULL
    /\ scriptProcessorRef # NULL

\* C10 witness: recording on a second session after the first one ended by a
\* connection error.
C10_Witness ==
  /\ isRecording
  /\ conn[1] = "failed"
  /\ sessionPromiseRef = 2

\* C11, in every state: the in-progress text App shows is the hook's buffer.
C11_DisplayIsBuffer == currentTranscription = currentInputTranscriptionRef

\* C11, on every call of onTranscriptionComplete (a turnComplete, a flushing
\* stop) and on every stop: both are empty afterwards.
C11_ClearedStep ==
  (delivered' # delivered \/ StopStep) =>
    (currentTranscription' = <<>> /\ currentInputTranscriptionRef' = <<>>)

\* C11: after every event App's currentTranscription equals
\* currentInputTranscriptionRef, and it is empty after every turnComplete and
\* after every stop.
C11_DisplayEqualsBuffer == []C11_DisplayIsBuffer /\ [][C11_ClearedStep]_vars

\* C11 witness: two fragments were received without a turnComplete and the
\* display shows both.
C11_Witness ==
  /\ Len(received) = 2
  /\ delivered = <<>>
  /\ currentTranscription = received[1] \o received[2]
  /\ currentInputTranscriptionRef = currentTranscription

\* A text with at least one character that is not white space.
NonBlank(text) == \E i \in 1..Len(text) : ~IsSpace(text[i])

\* C12, in every state: no record of the list has blank text.
C12_RecordsNonBlank ==
  \A i \in 1..Len(transcripts) : NonBlank(transcripts[i].text)

\* C12, on every step: a call of onTranscriptionComplete (by a turnComplete
\* or by stop) with empty or white-space-only text, and an upload whose
\* response text is blank, leave the list as it was.
C12_BlankStep ==
  /\ (delivered' # delivered /\ ~NonBlank(delivered'[Len(delivered')].text)) =>
       transcripts' = transcripts
  /\ \A r \in Responses :
       (FileTranscribed(TRUE, r) /\ ~NonBlank(r.text)) => transcripts' = transcripts

\* C12: every record of the transcript list has text with a character that is
\* not white space; a turnComplete or stop with an empty or white-space-only
\* buffer and a file upload with a blank response text append nothing.
C12_NoBlankRecords == []C12_RecordsNonBlank /\ [][C12_BlankStep]_vars

\* C12 witness: a turnComplete completed a white-space-only text, an upload
\* has finished, and the list holds only the record of non-blank text.
C12_Witness ==
  /\ \E i \in 1..Len(delivered) :
       delivered[i].text # <<>> /\ ~NonBlank(delivered[i].text)
  /\ uploads = 1
  /\ upload.pc = "idle"
  /\ Len(transcripts) = 1

\* C13, in every state: the ids of the records of the transcript list are
\* pairwise distinct, whatever the order and timing of live completions and
\* upload completions.
C13_UniqueIds ==
  \A i, j \in 1..Len(transcripts) :
    i # j => transcripts[i].id # transcripts[j].id

\* C14, in every state after createPcmBlob returned: every sample s in
\* [-1.0, 1.0] became a signed 16-bit value of the sign of s, full scale became
\* the largest positive value, a larger sample never became a smaller value,
\* and the bytes are two per sample, in the order of the samples.
C14_PcmInRange ==
  pcmPc = "return" =>
    LET int16 == pcmBlob.int16
        bytes == pcmBlob.bytes
        l     == Len(inputData)
    IN  /\ Len(int16) = l
        /\ \A i \in 1..l :
             /\ int16[i] \in -(2^15)..(2^15 - 1)
             /\ inputData[i] > 0 => int16[i] >= 0
             /\ inputData[i] < 0 => int16[i] <= 0
             /\ inputData[i] = 0 => int16[i] = 0
             /\ inputData[i] = SampleDenominator => int16[i] = 2^15 - 1
        /\ \A i, j \in 1..l :
             inputData[i] <= inputData[j] => int16[i] <= int16[j]
        /\ Len(bytes) = 2 * l
        /\ \A i \in 1..l :
             bytes[2 * i - 1] + 256 * bytes[2 * i] = int16[i] % (2^16)

====
